---- MODULE Spec2Model ----
(***************************************************************************)
(* Taipei / New Taipei parking data pipeline (src/services/api.ts and the  *)
(* coordinate service): fetchWithRetry, fetchAllNTPCData, the two source   *)
(* normalizers fetchTaipeiData / fetchNewTaipeiData and the aggregator     *)
(* fetchParkingData.                                                       *)
(*                                                                         *)
(* The specifications share the variables:                                 *)
(*   SpecFetch  one fetchWithRetry(url) call, one step per HTTP request;   *)
(*   SpecPage   one fetchAllNTPCData(baseUrl) call, one step per await;    *)
(*   SpecAgg    one fetchParkingData() call with every failure mode of the *)
(*              four upstream endpoints;                                   *)
(*   SpecNorm   one fetchParkingData() call with every upstream answering  *)
(*              and the payload values varied;                             *)
(*   SpecDesc   the same with the description fields and the projection    *)
(*              library varied;                                            *)
(*   SpecUpstream  the same with upstreams that never answer and relays;   *)
(*   SpecProp, SpecConv  one call of getProp / convertTWD97ToWGS84;        *)
(*   SpecApp    the App component: loadData and what starts it.            *)
(***************************************************************************)
EXTENDS Integers, Sequences, FiniteSets, TLC

VARIABLES
    \* ---- fetchWithRetry (api.ts 32-64)
    fpc,        \* position: "idle", "direct", "relay", "sleep", "returned",
                \* "thrown"
    fk,         \* index into PROXIES of the relay in use (1-based)
    fi,         \* the loop variable i of the retry loop
    fsleep,     \* duration (ms) of the backoff sleep in progress, 0 if none
    fret,       \* the value returned by fetchWithRetry
    reqLog,     \* every HTTP request issued so far: [strategy, outcome]
    \* ---- fetchAllNTPCData (api.ts 69-96), one instance per base URL
    ppc,        \* position per base URL: "idle", "loop", "await", "done"
    page,       \* the loop variable page
    allData,    \* the accumulator allData
    pageLog,    \* pages requested so far (the page= parameter of each call)
    \* ---- the upstream world
    net,        \* what each endpoint answers
    \* ---- fetchTaipeiData / fetchNewTaipeiData / fetchParkingData
    tres,       \* Taipei: the settled fetch() results, NotYet until settled
    tpcData,    \* settlement of fetchTaipeiData()
    ntpcData,   \* settlement of fetchNewTaipeiData()
    doneOrder,  \* the order in which the two source pipelines settled
    aggResult,  \* settlement of fetchParkingData()
    \* ---- one call of a helper (getProp, convertTWD97ToWGS84)
    args,       \* the arguments of the call
    ret,        \* its completion, NotYet until it has run
    p4Calls,    \* the argument lists of the proj4 calls made so far
    \* ---- App (App.tsx 10-15): the useState cells
    parkingData,
    loading,
    error,
    lastUpdated,
    events      \* what has happened so far: loadData() started by a trigger,
                \* fetchParkingData() of a given invocation resolved / rejected

fvars == <<fpc, fk, fi, fsleep, fret, reqLog>>
pvars == <<ppc, page, allData, pageLog>>
avars == <<tres, tpcData, ntpcData, doneOrder, aggResult>>
cvars == <<args, ret, p4Calls>>
appvars == <<parkingData, loading, error, lastUpdated, events>>
vars == <<fpc, fk, fi, fsleep, fret, reqLog, ppc, page, allData, pageLog, net,
          tres, tpcData, ntpcData, doneOrder, aggResult, args, ret, p4Calls,
          parkingData, loading, error, lastUpdated, events>>

(***************************************************************************)
(* JavaScript / JSON values, tagged by type.  Strings are sequences of     *)
(* one-character strings so that parseInt / parseFloat can be computed.    *)
(***************************************************************************)
Undef == [t |-> "undefined"]
Null == [t |-> "null"]
NaN == [t |-> "NaN"]
Num(n) == [t |-> "number", n |-> n]
Str(s) == [t |-> "string", s |-> s]
Obj(f) == [t |-> "object", f |-> f]
Arr(a) == [t |-> "array", a |-> a]

\* JavaScript truthiness (the ! and || operators and the filter callbacks).
Truthy(v) ==
    CASE v.t = "undefined" -> FALSE
      [] v.t = "null" -> FALSE
      [] v.t = "NaN" -> FALSE
      [] v.t = "number" -> v.n # 0
      [] v.t = "string" -> Len(v.s) > 0
      [] OTHER -> TRUE

\* obj[key]: undefined when the property is absent or obj is a primitive.
Get(v, k) ==
    IF v.t = "object" /\ k \in DOMAIN v.f THEN v.f[k] ELSE Undef

Last(s) == s[Len(s)]

(***************************************************************************)
(* fetchWithRetry                                                          *)
(***************************************************************************)
NumProxies == 2
Retries == 2
DirectTimeoutMs == 5000
ProxyTimeoutMs == 8000
BackoffUnitMs == 500

\* JSON bodies an endpoint may serve to a single fetchWithRetry call.
FetchBodies == {Null, Arr(<<>>), Arr(<<Num(1)>>), Obj([error |-> Str(<<"x">>)])}

\* What can happen to one HTTP request: fetch() rejects (network error or
\* AbortSignal.timeout), a response with res.ok false, a 2xx response whose
\* body is not JSON, a 2xx response whose body parses to val.
HttpOutcomes ==
    {[kind |-> "neterr"], [kind |-> "status"], [kind |-> "badjson"]}
        \cup {[kind |-> "json", val |-> v] : v \in FetchBodies}

Ctl(pc, k, i, ms) == [pc |-> pc, k |-> k, i |-> i, ms |-> ms]

NextProxyThrowsEarly(k) == Ctl("thrown", k, 0, 0)

\* The outer for-of over PROXIES moving on from relay k; past the last relay
\* the function throws (line 63).
NextProxy(k) ==
    IF k < NumProxies THEN Ctl("relay", k + 1, 0, 0) ELSE Ctl("thrown", k, 0, 0)

\* After the direct attempt (lines 34-39): only a parsed body returns; a
\* rejected fetch, a rejected res.json() and a non-ok response all fall
\* through to the relays.
DirectStep(o) ==
    IF o.kind = "json" THEN Ctl("returned", 0, 0, 0)
    ELSE IF NumProxies >= 1 THEN Ctl("relay", 1, 0, 0)
    ELSE Ctl("thrown", 0, 0, 0)

RelayStepOffByOne(o, k, i) ==
    CASE o.kind = "json" -> Ctl("returned", k, i, 0)
      [] o.kind = "badjson" -> NextProxy(k)
      [] o.kind = "status" ->
            IF i + 1 <= Retries + 1 THEN Ctl("relay", k, i + 1, 0) ELSE NextProxy(k)
      [] o.kind = "neterr" ->
            IF i = Retries + 1 THEN NextProxy(k)
            ELSE Ctl("sleep", k, i, BackoffUnitMs * (i + 1))

\* One iteration of the inner loop for relay k, attempt i (lines 44-60).
\*   json     return JSON.parse(text)
\*   badjson  break: next proxy
\*   status   res.ok is false: nothing is thrown, the loop goes on to i+1
\*            at once (no sleep)
\*   neterr   caught: at i = retries log and leave the loop, else sleep
RelayStep(o, k, i) ==
    CASE o.kind = "json" -> Ctl("returned", k, i, 0)
      [] o.kind = "badjson" -> NextProxy(k)
      [] o.kind = "status" ->
            IF i + 1 <= Retries THEN Ctl("relay", k, i + 1, 0) ELSE NextProxy(k)
      [] o.kind = "neterr" ->
            IF i = Retries THEN NextProxy(k)
            ELSE Ctl("sleep", k, i, BackoffUnitMs * (i + 1))

Goto(c) ==
    /\ fpc' = c.pc
    /\ fk' = c.k
    /\ fi' = c.i
    /\ fsleep' = c.ms

\* await fetch(url, {signal: AbortSignal.timeout(5000)}) and res.json()
FDirect ==
    /\ fpc = "direct"
    /\ \E o \in HttpOutcomes :
        /\ reqLog' = Append(reqLog, [strategy |-> 0, outcome |-> o.kind,
                                     timeout |-> DirectTimeoutMs])
        /\ Goto(DirectStep(o))
        /\ fret' = IF o.kind = "json" THEN o.val ELSE fret
    /\ UNCHANGED <<pvars, net, avars, cvars, appvars>>

\* await fetch(proxyUrl, {signal: AbortSignal.timeout(8000)}), res.text(),
\* JSON.parse
FRelay ==
    /\ fpc = "relay"
    /\ \E o \in HttpOutcomes :
        /\ reqLog' = Append(reqLog, [strategy |-> fk, outcome |-> o.kind,
                                     timeout |-> ProxyTimeoutMs])
        /\ Goto(RelayStep(o, fk, fi))
        /\ fret' = IF o.kind = "json" THEN o.val ELSE fret
    /\ UNCHANGED <<pvars, net, avars, cvars, appvars>>

\* await sleep(500 * (i + 1)) elapses; the loop goes on to i+1.
FSleepDone ==
    /\ fpc = "sleep"
    /\ Goto(Ctl("relay", fk, fi + 1, 0))
    /\ UNCHANGED <<fret, reqLog, pvars, net, avars, cvars, appvars>>

NextFetch == FDirect \/ FRelay \/ FSleepDone

(***************************************************************************)
(* fetchAllNTPCData                                                        *)
(***************************************************************************)
MaxPage == 15

\* The two base URLs the paginator is called with (lines 15-16).
BaseUrls == {"desc", "avail"}

Digits == <<"0", "1", "2", "3", "4", "5", "6", "7", "8", "9">>
IntChars(n) ==
    IF n < 10 THEN <<Digits[n + 1]>>
    ELSE <<Digits[(n \div 10) + 1], Digits[(n % 10) + 1]>>

GoodX == Str(<<"3", "0", "0", "0", "0", "0">>)
GoodY == Str(<<"2", "7", "7", "0", "0", "0", "0">>)

\* Record i of page p as the New Taipei upstream serves it for base URL t:
\* every record of every page is distinct, so order and loss are visible.
PageRec(t, p, i) ==
    LET id == Str(<<"A">> \o IntChars(p) \o <<"r">> \o IntChars(i))
    IN  IF t = "desc"
        THEN Obj([ID |-> id, TW97X |-> GoodX, TW97Y |-> GoodY,
                  TOTALCAR |-> Str(<<"5", "0">>)])
        ELSE Obj([ID |-> id, AVAILABLECAR |-> Str(IntChars(p + i))])

PageOf(t, p, n) == [i \in 1..n |-> PageRec(t, p, i)]

\* Result of one awaited fetchWithRetry(url): a parsed JSON value or the
\* terminal failure of line 63.
Ret(v) == [kind |-> "return", val |-> v]
Throw == [kind |-> "throw"]
NotYet == [kind |-> "pending"]

\* What `await fetchWithRetry(url)` yields for page p of base URL t (the two
\* ways a fetchWithRetry call ends in SpecFetch: "returned" with a parsed
\* value, or "thrown"), decided by the upstream of that base URL: the
\* upstream holds net[t].pages; past them it answers as net[t].tail says:
\* an empty list, a non-list error object, null, no answer at all (every
\* strategy exhausted), or one more non-empty page for ever.
Respond(t, p) ==
    IF p < Len(net[t].pages) THEN Ret(Arr(net[t].pages[p + 1]))
    ELSE CASE net[t].tail = "empty" -> Ret(Arr(<<>>))
           [] net[t].tail = "nonlist" -> Ret(Obj([error |-> Str(<<"x">>)]))
           [] net[t].tail = "null" -> Ret(Null)
           [] net[t].tail = "throw" -> Throw
           [] net[t].tail = "runaway" -> Ret(Arr(PageOf(t, p, 1)))

PCtl(pc, p, acc) == [pc |-> pc, page |-> p, allData |-> acc]

PageStepNoCeiling(r, p, acc) ==
    IF r.kind = "throw" THEN PCtl("done", p, acc)
    ELSE IF ~Truthy(r.val) \/ r.val.t # "array" \/ Len(r.val.a) = 0
         THEN PCtl("done", p, acc)
         ELSE PCtl("loop", p + 1, acc \o r.val.a)

PageStepDropsOnError(r, p, acc) ==
    IF r.kind = "throw" THEN PCtl("done", p, <<>>)
    ELSE IF ~Truthy(r.val) \/ r.val.t # "array" \/ Len(r.val.a) = 0
         THEN PCtl("done", p, acc)
         ELSE PCtl(IF p + 1 > MaxPage THEN "done" ELSE "loop", p + 1,
                   acc \o r.val.a)

PageStepIgnoresEmpty(r, p, acc) ==
    IF r.kind = "throw" THEN PCtl("done", p, acc)
    ELSE IF ~Truthy(r.val) \/ r.val.t # "array"
         THEN PCtl("done", p, acc)
         ELSE PCtl(IF p + 1 > MaxPage THEN "done" ELSE "loop", p + 1,
                   acc \o r.val.a)

\* The body of the while loop after the await (lines 77-93), given the
\* result r of fetchWithRetry for page p and the accumulator acc.
PageStep(r, p, acc) ==
    IF r.kind = "throw" THEN PCtl("done", p, acc)
    ELSE IF ~Truthy(r.val) \/ r.val.t # "array" \/ Len(r.val.a) = 0
         THEN PCtl("done", p, acc)
         ELSE PCtl(IF p + 1 > MaxPage THEN "done" ELSE "loop", p + 1,
                   acc \o r.val.a)

\* Top of the loop: the url for the current page is built and
\* fetchWithRetry(url) is called (lines 76-78); the function is suspended.
PageRequest(t) ==
    /\ ppc[t] = "loop"
    /\ ppc' = [ppc EXCEPT ![t] = "await"]
    /\ pageLog' = [pageLog EXCEPT ![t] = Append(@, page[t])]
    /\ UNCHANGED <<page, allData, fvars, net, avars, cvars, appvars>>

\* The awaited fetchWithRetry settles and the loop body runs to its end.
PageResume(t) ==
    /\ ppc[t] = "await"
    /\ LET c == PageStep(Respond(t, page[t]), page[t], allData[t])
       IN  /\ ppc' = [ppc EXCEPT ![t] = c.pc]
           /\ page' = [page EXCEPT ![t] = c.page]
           /\ allData' = [allData EXCEPT ![t] = c.allData]
    /\ UNCHANGED <<pageLog, fvars, net, avars, cvars, appvars>>

NextPage == \E t \in BaseUrls : PageRequest(t) \/ PageResume(t)

(***************************************************************************)
(* Numeric coercion.  The strings of the model are drawn from the alphabet *)
(* of digits, sign, space and letters (no ".", no exponent), on which      *)
(* parseInt(s, 10) and parseFloat(s) read the same decimal prefix.  Field  *)
(* values are never arrays or booleans.                                    *)
(***************************************************************************)
IsDigit(c) == \E n \in 1..10 : Digits[n] = c
DigitVal(c) == (CHOOSE n \in 1..10 : Digits[n] = c) - 1

RECURSIVE SkipSpaces(_)
SkipSpaces(s) ==
    IF Len(s) > 0 /\ Head(s) = " " THEN SkipSpaces(Tail(s)) ELSE s

\* The longest run of leading digits of s as a number, NaN when there is none.
RECURSIVE DigitRun(_, _, _)
DigitRun(s, acc, seen) ==
    IF Len(s) > 0 /\ IsDigit(Head(s))
    THEN DigitRun(Tail(s), acc * 10 + DigitVal(Head(s)), TRUE)
    ELSE IF seen THEN Num(acc) ELSE NaN

\* Leading white space, an optional sign, then decimal digits; what follows
\* the digits is ignored.
DecimalPrefix(s) ==
    LET u == SkipSpaces(s)
        neg == Len(u) > 0 /\ Head(u) = "-"
        signed == Len(u) > 0 /\ Head(u) \in {"-", "+"}
        r == DigitRun(IF signed THEN Tail(u) ELSE u, 0, FALSE)
    IN  IF r.t = "number" /\ neg THEN Num(0 - r.n) ELSE r

\* parseInt(v, 10): the argument is converted to a string first, so
\* undefined, null, NaN and plain objects give NaN.
ParseInt(v) ==
    CASE v.t = "string" -> DecimalPrefix(v.s)
      [] v.t = "number" -> v
      [] OTHER -> NaN

\* parseFloat(v)
ParseFloat(v) ==
    CASE v.t = "string" -> DecimalPrefix(v.s)
      [] v.t = "number" -> v
      [] OTHER -> NaN

\* a ?? d
Nullish(a, d) == IF a.t \in {"undefined", "null"} THEN d ELSE a

\* a || d
OrElse(a, d) == IF Truthy(a) THEN a ELSE d

(***************************************************************************)
(* getProp (api.ts 98-101)                                                 *)
(***************************************************************************)
\* key.toLowerCase() / key.toUpperCase() on the keys the normalizer uses.
ToLowerCase(k) ==
    CASE k = "ID" -> "id"
      [] k = "AVAILABLECAR" -> "availablecar"
      [] k = "TW97X" -> "tw97x"
      [] k = "TW97Y" -> "tw97y"
      [] k = "TOTALCAR" -> "totalcar"

ToUpperCase(k) ==
    CASE k = "ID" -> "ID"
      [] k = "AVAILABLECAR" -> "AVAILABLECAR"
      [] k = "TW97X" -> "TW97X"
      [] k = "TW97Y" -> "TW97Y"
      [] k = "TOTALCAR" -> "TOTALCAR"

GetProp(obj, key) ==
    IF ~Truthy(obj) THEN Undef
    ELSE OrElse(Get(obj, key),
                OrElse(Get(obj, ToLowerCase(key)), Get(obj, ToUpperCase(key))))

\* One call getProp(obj, key) runs.
GetPropCall ==
    /\ ret = NotYet
    /\ args.fn = "getProp"
    /\ ret' = Ret(GetProp(args.obj, args.key))
    /\ UNCHANGED <<args, p4Calls, fvars, pvars, net, avars, appvars>>

NextProp == GetPropCall

(***************************************************************************)
(* convertTWD97ToWGS84 (coordinate service, part_000 108-118)              *)
(***************************************************************************)
\* The proj4 call p4("EPSG:3826", WGS84_DEF, [x, y]) -> [lon, lat].  The
\* library is outside the repository; it is stood for by the linear
\* approximation of the TM2 zone 121 inverse around Taiwan, in units of
\* 10^-6 degree: lon = 121 + (x - 250000) m * 10e-6, lat = y m * 9e-6.
\* Whether the library raises is the environment's choice (net.p4).
P4(x, y) ==
    IF net.p4 = "throws" THEN Throw
    ELSE Ret(<<Num(121000000 + 10 * (x.n - 250000)), Num(9 * y.n)>>)

ConvertRunUnguarded(x, y) ==
    IF x.t # "number" \/ y.t # "number"
    THEN [calls |-> <<>>, val |-> <<Num(0), Num(0)>>]
    ELSE LET r == P4(x, y)
         IN  [calls |-> <<<<x, y>>>>,
              val |-> IF r.kind = "throw" THEN <<Num(0), Num(0)>>
                      ELSE <<r.val[2], r.val[1]>>]

\* One run of the function body: the proj4 calls it makes and the pair
\* [lat, lng] it returns.
ConvertRun(x, y) ==
    IF ~Truthy(x) \/ ~Truthy(y)
    THEN [calls |-> <<>>, val |-> <<Num(0), Num(0)>>]
    ELSE LET r == P4(x, y)
         IN  [calls |-> <<<<x, y>>>>,
              val |-> IF r.kind = "throw" THEN <<Num(0), Num(0)>>
                      ELSE <<r.val[2], r.val[1]>>]

ConvertTWD97ToWGS84(x, y) == ConvertRun(x, y).val

\* One call convertTWD97ToWGS84(x, y) runs.
ConvCall ==
    /\ ret = NotYet
    /\ args.fn = "convertTWD97ToWGS84"
    /\ ret' = Ret(ConvertTWD97ToWGS84(args.x, args.y))
    /\ p4Calls' = p4Calls \o ConvertRun(args.x, args.y).calls
    /\ UNCHANGED <<args, fvars, pvars, net, avars, appvars>>

NextConv == ConvCall

(***************************************************************************)
(* Map<string, number> as the sequence of its set() calls                  *)
(***************************************************************************)
MapGetMisses(m, k) == Undef

\* availMap.get(k): the value of the last set(k, ...), undefined when none.
MapGet(m, k) ==
    LET hits == {j \in 1..Len(m) : m[j][1] = k}
    IN  IF hits = {} THEN Undef
        ELSE m[CHOOSE j \in hits : \A h \in hits : h <= j][2]

(***************************************************************************)
(* fetchTaipeiData (api.ts 103-144)                                        *)
(***************************************************************************)
NotJson == [t |-> "notjson"]
Http(ok, body) == [kind |-> "http", ok |-> ok, body |-> body]

\* v.k where v may be anything: a TypeError on undefined and null.
Member(v, k) == IF v.t \in {"undefined", "null"} THEN Throw ELSE Ret(Get(v, k))

\* json.data.park
DataPark(json) ==
    LET d == Member(json, "data")
    IN  IF d.kind = "throw" THEN Throw ELSE Member(d.val, "park")

\* The record built for one description (lines 121-138).  The display
\* strings name, address, payex and the timestamp are copied through and
\* are left out.
TaipeiRecord(desc, availMap) ==
    LET x == ParseFloat(Get(desc, "tw97x"))
        y == ParseFloat(Get(desc, "tw97y"))
        ll == ConvertTWD97ToWGS84(x, y)
    IN  [id |-> Get(desc, "id"),
         totalcar |-> Get(desc, "totalcar"),
         availablecar |-> Nullish(MapGet(availMap, Get(desc, "id")), Num(-9)),
         lat |-> ll[1], lng |-> ll[2], source |-> "TPC"]

KeepTaipeiAll(p) == TRUE

\* The filter callback of line 139.
KeepTaipei(p) == p.lat # Num(0) /\ p.lng # Num(0)

\* Lines 115-139 given the two parsed bodies.
TaipeiNormalize(descJson, availJson) ==
    LET pd == DataPark(descJson)
        pa == DataPark(availJson)
    IN  IF pd.kind = "throw" \/ pa.kind = "throw" THEN Throw
        ELSE IF pa.val.t # "array" THEN Throw
        ELSE IF \E j \in 1..Len(pa.val.a) : pa.val.a[j].t \in {"undefined", "null"}
             THEN Throw
        ELSE IF pd.val.t # "array" THEN Throw
        ELSE IF \E j \in 1..Len(pd.val.a) : pd.val.a[j].t \in {"undefined", "null"}
             THEN Throw
        ELSE LET availMap == [j \in 1..Len(pa.val.a) |->
                                <<Get(pa.val.a[j], "id"),
                                  Get(pa.val.a[j], "availablecar")>>]
                 recs == [j \in 1..Len(pd.val.a) |->
                                TaipeiRecord(pd.val.a[j], availMap)]
             IN  Ret(SelectSeq(recs, KeepTaipei))

\* The try block (lines 105-139) given the settlements of the two fetch()
\* calls: Promise.all rejects when either rejects, a non-ok response throws,
\* res.json() rejects on a body that is not JSON.
TaipeiTry(descRes, availRes) ==
    IF descRes.kind = "neterr" \/ availRes.kind = "neterr" THEN Throw
    ELSE IF ~descRes.ok \/ ~availRes.ok THEN Throw
    ELSE IF descRes.body = NotJson \/ availRes.body = NotJson THEN Throw
    ELSE TaipeiNormalize(descRes.body, availRes.body)

TaipeiCatchRethrows(r) == r

\* catch (error) { console.error(...); return []; }  (lines 140-143)
TaipeiCatch(r) == IF r.kind = "throw" THEN Ret(<<>>) ELSE r

FetchTaipeiData(descRes, availRes) == TaipeiCatch(TaipeiTry(descRes, availRes))

(***************************************************************************)
(* fetchNewTaipeiData (api.ts 146-193)                                     *)
(***************************************************************************)
\* availMap as built by lines 153-161: an entry is set only for a truthy id.
NewTaipeiAvailMap(availArray) ==
    LET entry(p) ==
            LET count == ParseInt(GetProp(p, "AVAILABLECAR"))
            IN  <<GetProp(p, "ID"), IF count = NaN THEN Num(-9) ELSE count>>
        all == [j \in 1..Len(availArray) |-> entry(availArray[j])]
    IN  SelectSeq(all, LAMBDA e : Truthy(e[1]))

\* The record built for one description (lines 163-187); name, address,
\* payex and the timestamp left out as above.
NewTaipeiRecord(desc, availMap) ==
    LET x == ParseFloat(GetProp(desc, "TW97X"))
        y == ParseFloat(GetProp(desc, "TW97Y"))
        ll == ConvertTWD97ToWGS84(x, y)
        id == GetProp(desc, "ID")
    IN  [id |-> id,
         totalcar |-> OrElse(ParseInt(GetProp(desc, "TOTALCAR")), Num(0)),
         availablecar |-> Nullish(MapGet(availMap, id), Num(-9)),
         lat |-> ll[1], lng |-> ll[2], source |-> "NTPC"]

KeepNewTaipei(p) == p.lat # Num(0) /\ p.lng # Num(0) /\ Truthy(p.id)

\* The try block (lines 148-188) given the settlements of the two
\* fetchAllNTPCData calls.
NewTaipeiTry(descR, availR) ==
    IF descR.kind = "throw" \/ availR.kind = "throw" THEN Throw
    ELSE LET availMap == NewTaipeiAvailMap(availR.val)
             recs == [j \in 1..Len(descR.val) |->
                            NewTaipeiRecord(descR.val[j], availMap)]
         IN  Ret(SelectSeq(recs, KeepNewTaipei))

\* catch (error) { console.error(...); return []; }  (lines 189-192)
NewTaipeiCatch(r) == IF r.kind = "throw" THEN Ret(<<>>) ELSE r

FetchNewTaipeiData(descR, availR) == NewTaipeiCatch(NewTaipeiTry(descR, availR))

(***************************************************************************)
(* fetchParkingData (api.ts 195-208)                                       *)
(***************************************************************************)
NoData == [kind |-> "throw", err |-> "NoData"]

AggregateByArrival(a, b) ==
    IF a.kind = "throw" THEN a
    ELSE IF b.kind = "throw" THEN b
    ELSE LET combined == IF doneOrder[1] = "TPC" THEN a.val \o b.val
                         ELSE b.val \o a.val
         IN  IF Len(combined) = 0 THEN NoData ELSE Ret(combined)

AggregateNeedsBoth(a, b) ==
    IF a.kind = "throw" THEN a
    ELSE IF b.kind = "throw" THEN b
    ELSE IF Len(a.val) = 0 \/ Len(b.val) = 0 THEN NoData
    ELSE Ret(a.val \o b.val)

\* Lines 196-207 given the settlements a of fetchTaipeiData() and b of
\* fetchNewTaipeiData(): Promise.all rejects with a rejection of either.
Aggregate(a, b) ==
    IF a.kind = "throw" THEN a
    ELSE IF b.kind = "throw" THEN b
    ELSE LET combined == a.val \o b.val
         IN  IF Len(combined) = 0 THEN NoData ELSE Ret(combined)

Feeds == {"tdesc", "tavail"}

\* fetch(url) of lines 106-107 is called without a signal: the promise
\* settles when the server answers or the connection fails, and stays
\* pending for as long as the server keeps the connection open in silence.
Settles(answer) == answer.kind # "hang"

\* One of the two fetch() calls of lines 106-107 settles.
TpcSettle(e) ==
    /\ tpcData = NotYet
    /\ tres[e] = NotYet
    /\ Settles(net[e])
    /\ tres' = [tres EXCEPT ![e] = net[e]]
    /\ UNCHANGED <<tpcData, ntpcData, doneOrder, aggResult, fvars, pvars, net,
                 cvars, appvars>>

\* Promise.all of line 105 settles (both fulfilled, or one rejected) and
\* fetchTaipeiData runs to its return.
TpcFinish ==
    /\ tpcData = NotYet
    /\ \/ \A e \in Feeds : tres[e] # NotYet
       \/ \E e \in Feeds : tres[e].kind = "neterr"
    /\ tpcData' = FetchTaipeiData(tres["tdesc"], tres["tavail"])
    /\ doneOrder' = Append(doneOrder, "TPC")
    /\ UNCHANGED <<tres, ntpcData, aggResult, fvars, pvars, net,
                 cvars, appvars>>

\* Promise.all of line 148 settles and fetchNewTaipeiData runs to its return.
NtpcFinish ==
    /\ ntpcData = NotYet
    /\ \A t \in BaseUrls : ppc[t] = "done"
    /\ ntpcData' = FetchNewTaipeiData(Ret(allData["desc"]), Ret(allData["avail"]))
    /\ doneOrder' = Append(doneOrder, "NTPC")
    /\ UNCHANGED <<tres, tpcData, aggResult, fvars, pvars, net,
                 cvars, appvars>>

\* Promise.all of line 196 settles and fetchParkingData returns or throws.
AggFinish ==
    /\ aggResult = NotYet
    /\ tpcData # NotYet /\ ntpcData # NotYet
    /\ aggResult' = Aggregate(tpcData, ntpcData)
    /\ UNCHANGED <<tres, tpcData, ntpcData, doneOrder, fvars, pvars, net,
                 cvars, appvars>>

NextAgg ==
    \/ \E e \in Feeds : TpcSettle(e)
    \/ TpcFinish
    \/ \E t \in BaseUrls : PageRequest(t) \/ PageResume(t)
    \/ NtpcFinish
    \/ AggFinish

(***************************************************************************)
(* Initial states                                                          *)
(***************************************************************************)
MaxUpPages == 2
MaxPageRecs == 2

\* Sequences of n pages for base URL t, page p holding 1..MaxPageRecs records.
RECURSIVE PageSeqs(_, _)
PageSeqs(t, n) ==
    IF n = 0 THEN {<<>>}
    ELSE {Append(s, PageOf(t, n - 1, m)) :
            s \in PageSeqs(t, n - 1), m \in 1..MaxPageRecs}

PagedUpstreams(t, tails) ==
    {[pages |-> ps, tail |-> tl] :
        ps \in UNION {PageSeqs(t, n) : n \in 0..MaxUpPages}, tl \in tails}

NoUpstream == [pages |-> <<>>, tail |-> "empty"]
NoResponse == [kind |-> "neterr"]

FetchIdle ==
    /\ fpc = "idle" /\ fk = 0 /\ fi = 0 /\ fsleep = 0
    /\ fret = Undef /\ reqLog = <<>>

PageIdle ==
    /\ ppc = [t \in BaseUrls |-> "idle"]
    /\ page = [t \in BaseUrls |-> 0]
    /\ allData = [t \in BaseUrls |-> <<>>]
    /\ pageLog = [t \in BaseUrls |-> <<>>]

AggIdle ==
    /\ tres = [e \in {"tdesc", "tavail"} |-> NotYet]
    /\ tpcData = NotYet /\ ntpcData = NotYet
    /\ doneOrder = <<>> /\ aggResult = NotYet

\* The upstream world: the answers of the two Taipei feeds (td, ta) and of
\* the two New Taipei datasets (d, a); what a relay would answer when asked
\* for a Taipei feed; whether the projection library raises.
Net(td, ta, d, a) ==
    [tdesc |-> td, tavail |-> ta, desc |-> d, avail |-> a,
     relay |-> [e \in {"tdesc", "tavail"} |-> NoResponse], p4 |-> "ok"]

NetIdle == net = Net(NoResponse, NoResponse, NoUpstream, NoUpstream)

\* No helper call under observation.
CallIdle == args = <<>> /\ ret = NotYet /\ p4Calls = <<>>

\* The useState initial values (App.tsx 10-15); nothing has happened yet.
AppIdle ==
    /\ parkingData = <<>> /\ loading = TRUE
    /\ error = Null /\ lastUpdated = Null
    /\ events = <<>>

\* fetchWithRetry(url) has just been called.
InitFetch ==
    /\ fpc = "direct" /\ fk = 0 /\ fi = 0 /\ fsleep = 0
    /\ fret = Undef /\ reqLog = <<>>
    /\ PageIdle /\ NetIdle /\ AggIdle /\ CallIdle /\ AppIdle

SpecFetch == InitFetch /\ [][NextFetch]_vars

\* fetchAllNTPCData(baseUrl) has just been called for one of the base URLs.
InitPage ==
    /\ FetchIdle /\ AggIdle /\ CallIdle /\ AppIdle
    /\ \E t \in BaseUrls :
        /\ ppc = [u \in BaseUrls |-> IF u = t THEN "loop" ELSE "idle"]
        /\ \E up \in PagedUpstreams(t, {"empty", "nonlist", "null", "throw", "runaway"}) :
             net = Net(NoResponse, NoResponse,
                       IF t = "desc" THEN up ELSE NoUpstream,
                       IF t = "avail" THEN up ELSE NoUpstream)
    /\ page = [t \in BaseUrls |-> 0]
    /\ allData = [t \in BaseUrls |-> <<>>]
    /\ pageLog = [t \in BaseUrls |-> <<>>]

SpecPage == InitPage /\ [][NextPage]_vars

\* The lot both cities list under the same identifier.
SampleId == Str(<<"A", "0", "r", "1">>)
TpcSampleDesc ==
    Obj([id |-> SampleId, tw97x |-> GoodX, tw97y |-> GoodY, totalcar |-> Num(100)])
TpcSampleAvail == Obj([id |-> SampleId, availablecar |-> Num(42)])
TpcBody(parks) == Obj([data |-> Obj([park |-> Arr(parks)])])

\* Answers of the Taipei description feed: no answer (network error), a
\* non-2xx status, a 2xx body that is not JSON, JSON without data.park, a
\* park list holding null, an empty park list, a park list with one lot.
TpcDescAnswers ==
    {NoResponse,
     Http(FALSE, TpcBody(<<TpcSampleDesc>>)),
     Http(TRUE, NotJson),
     Http(TRUE, Obj([error |-> Str(<<"x">>)])),
     Http(TRUE, TpcBody(<<Null>>)),
     Http(TRUE, TpcBody(<<>>)),
     Http(TRUE, TpcBody(<<TpcSampleDesc>>))}

\* Answers of the Taipei availability feed.
TpcAvailAnswers ==
    {NoResponse,
     Http(FALSE, TpcBody(<<TpcSampleAvail>>)),
     Http(TRUE, NotJson),
     Http(TRUE, Obj([error |-> Str(<<"x">>)])),
     Http(TRUE, TpcBody(<<TpcSampleAvail>>))}

\* New Taipei upstreams holding 0..MaxUpPages pages of one record each.
OneRecordPages(t, n) == [p \in 1..n |-> PageOf(t, p - 1, 1)]
NtpcAnswers(t, tails) ==
    {[pages |-> OneRecordPages(t, n), tail |-> tl] :
        n \in 0..MaxUpPages, tl \in tails}

\* fetchParkingData() has just been called: the two Taipei fetches are in
\* flight and both paginators are at the top of their loop.
Called ==
    /\ FetchIdle
    /\ ppc = [t \in BaseUrls |-> "loop"]
    /\ page = [t \in BaseUrls |-> 0]
    /\ allData = [t \in BaseUrls |-> <<>>]
    /\ pageLog = [t \in BaseUrls |-> <<>>]
    /\ AggIdle /\ CallIdle /\ AppIdle

InitAgg ==
    /\ Called
    /\ \E td \in TpcDescAnswers, ta \in TpcAvailAnswers,
          nd \in NtpcAnswers("desc", {"empty", "nonlist", "throw"}),
          na \in NtpcAnswers("avail", {"empty", "throw"}) :
         net = Net(td, ta, nd, na)

SpecAgg == InitAgg /\ [][NextAgg]_vars

MaxRecs == 1

\* The non-empty lists of at most n elements of S.
ListsUpTo(S, n) == UNION {[1..k -> S] : k \in 1..n}

Chars(a, b, c) == Str(<<a, b, c>>)

\* Availability entries as the Taipei feed may carry them: counts, the
\* advisory codes, a negative number that is no code, strings, null, no
\* availablecar at all, and an entry for another lot.
TpcAvailObjs ==
    {Obj([id |-> SampleId, availablecar |-> v]) :
        v \in {Num(42), Num(0), Num(-5), Num(-11), Str(<<"7">>),
               Chars("a", "b", "c"), Null}}
    \cup {Obj([id |-> SampleId]),
          Obj([id |-> Str(<<"P", "2">>), availablecar |-> Num(3)])}

\* Descriptions as the Taipei feed may carry them: projected coordinates,
\* a zero x, no coordinates.
TpcDescObjs ==
    {TpcSampleDesc,
     Obj([id |-> SampleId, tw97x |-> Str(<<"0">>), tw97y |-> GoodY,
          totalcar |-> Num(100)]),
     Obj([id |-> SampleId, totalcar |-> Num(100)])}

\* Availability entries as the New Taipei feed may carry them.
NtpcAvailObjs ==
    {Obj([ID |-> SampleId, AVAILABLECAR |-> v]) :
        v \in {Str(<<"4", "2">>), Str(<<"0">>), Str(<<"-", "5">>),
               Chars("-", "1", "1"), Chars("a", "b", "c"), Chars(" ", "8", "x"),
               Str(<<>>), Num(0), Num(7)}}
    \cup {Obj([ID |-> SampleId]),
          Obj([id |-> SampleId, availablecar |-> Str(<<"1", "5">>)]),
          Obj([ID |-> Str(<<"B", "2">>), AVAILABLECAR |-> Str(<<"3">>)])}

\* Descriptions as the New Taipei feed may carry them: upper-case keys,
\* lower-case keys, a zero x, an empty identifier.
NtpcDescObjs ==
    {PageRec("desc", 0, 1),
     Obj([id |-> SampleId, tw97x |-> GoodX, tw97y |-> GoodY,
          totalcar |-> Str(<<"5", "0">>)]),
     Obj([ID |-> SampleId, TW97X |-> Str(<<"0">>), TW97Y |-> GoodY,
          TOTALCAR |-> Str(<<"5", "0">>)]),
     Obj([ID |-> Str(<<>>), TW97X |-> GoodX, TW97Y |-> GoodY,
          TOTALCAR |-> Str(<<"5", "0">>)])}

OnePage(recs) == [pages |-> <<recs>>, tail |-> "empty"]

\* Every endpoint answers; the payload of one city varies while the other
\* city serves its one sample lot.
InitNorm ==
    /\ Called
    /\ \/ \E ds \in ListsUpTo(TpcDescObjs, MaxRecs),
             as \in ListsUpTo(TpcAvailObjs, MaxRecs) \cup {<<>>} :
            net = Net(Http(TRUE, TpcBody(ds)), Http(TRUE, TpcBody(as)),
                      OnePage(PageOf("desc", 0, 1)),
                      OnePage(PageOf("avail", 0, 1)))
       \/ \E ds \in ListsUpTo(NtpcDescObjs, MaxRecs),
             as \in ListsUpTo(NtpcAvailObjs, MaxRecs) :
            net = Net(Http(TRUE, TpcBody(<<TpcSampleDesc>>)),
                      Http(TRUE, TpcBody(<<TpcSampleAvail>>)),
                      OnePage(ds), OnePage(as))

SpecNorm == InitNorm /\ [][NextAgg]_vars

\* Descriptions of the Taipei feed with the coordinate and capacity fields
\* varied: a zero y, an unparsable x, numeric coordinates, an empty x;
\* capacities negative, zero, missing, null and string-encoded.
TpcDescVariants ==
    TpcDescObjs
    \cup {Obj([id |-> SampleId, tw97x |-> GoodX, tw97y |-> Str(<<"0">>),
               totalcar |-> Num(100)]),
          Obj([id |-> SampleId, tw97x |-> Chars("a", "b", "c"), tw97y |-> GoodY,
               totalcar |-> Num(100)]),
          Obj([id |-> SampleId, tw97x |-> Num(300000), tw97y |-> Num(2770000),
               totalcar |-> Num(100)]),
          Obj([id |-> SampleId, tw97x |-> Str(<<>>), tw97y |-> GoodY,
               totalcar |-> Num(100)]),
          Obj([id |-> SampleId, tw97x |-> GoodX, tw97y |-> GoodY])}
    \cup {Obj([id |-> SampleId, tw97x |-> GoodX, tw97y |-> GoodY, totalcar |-> v]) :
            v \in {Num(-5), Num(0), Null, Str(<<"1", "2">>)}}

\* The same for the New Taipei dataset, plus a record without identifier.
NtpcDescVariants ==
    NtpcDescObjs
    \cup {Obj([ID |-> SampleId, TW97X |-> GoodX, TW97Y |-> Str(<<"0">>),
               TOTALCAR |-> Str(<<"5", "0">>)]),
          Obj([ID |-> SampleId, TW97X |-> GoodX, TW97Y |-> Chars("a", "b", "c"),
               TOTALCAR |-> Str(<<"5", "0">>)]),
          Obj([ID |-> SampleId, TOTALCAR |-> Str(<<"5", "0">>)]),
          Obj([TW97X |-> GoodX, TW97Y |-> GoodY, TOTALCAR |-> Str(<<"5", "0">>)]),
          Obj([ID |-> SampleId, TW97X |-> GoodX, TW97Y |-> GoodY])}
    \cup {Obj([ID |-> SampleId, TW97X |-> GoodX, TW97Y |-> GoodY, TOTALCAR |-> v]) :
            v \in {Str(<<"-", "5">>), Chars("a", "b", "c"), Str(<<"0">>),
                   Num(-5), Num(12)}}

P4Modes == {"ok", "throws"}

\* Every endpoint answers; the descriptions of one city vary while its
\* availability feed and the other city serve the sample lot; the
\* projection library works or raises.
InitDesc ==
    /\ Called
    /\ \E m \in P4Modes :
        \/ \E ds \in ListsUpTo(TpcDescVariants, MaxRecs) :
            net = [Net(Http(TRUE, TpcBody(ds)),
                       Http(TRUE, TpcBody(<<TpcSampleAvail>>)),
                       OnePage(PageOf("desc", 0, 1)),
                       OnePage(PageOf("avail", 0, 1))) EXCEPT !.p4 = m]
        \/ \E ds \in ListsUpTo(NtpcDescVariants, MaxRecs) :
            net = [Net(Http(TRUE, TpcBody(<<TpcSampleDesc>>)),
                       Http(TRUE, TpcBody(<<TpcSampleAvail>>)),
                       OnePage(ds),
                       OnePage(PageOf("avail", 0, 1))) EXCEPT !.p4 = m]

SpecDesc == InitDesc /\ [][NextAgg]_vars

(***************************************************************************)
(* Properties of fetchWithRetry (SpecFetch)                                *)
(***************************************************************************)
Attempts(log, s) == SelectSeq(log, LAMBDA e : e.strategy = s)
NoJson(log) == \A j \in 1..Len(log) : log[j].outcome # "json"

\* The direct attempt was made exactly once and yielded no JSON.
DirectGaveUp(log) ==
    /\ Len(Attempts(log, 0)) = 1
    /\ Attempts(log, 0)[1].outcome # "json"

\* Relay k was tried and abandoned: its last attempt got a 2xx non-JSON body,
\* or all retries+1 attempts were made without a parsed body.
RelayGaveUp(log, k) ==
    LET at == Attempts(log, k)
    IN  /\ Len(at) >= 1
        /\ NoJson(at)
        /\ Last(at).outcome = "badjson" \/ Len(at) = Retries + 1

\* C4: fetchWithRetry throws only after the direct attempt was made exactly
\* once without yielding JSON and every relay of PROXIES was tried and given
\* up; requests go direct, relay 1, relay 2 in that order, a relay being
\* contacted only after every earlier strategy has given up; and no request
\* follows an attempt that yielded parsed JSON.
C4_ThrowOnlyWhenExhausted ==
    /\ fpc = "thrown" =>
          /\ DirectGaveUp(reqLog)
          /\ \A k \in 1..NumProxies : RelayGaveUp(reqLog, k)
    /\ \A j \in 1..Len(reqLog) :
          LET e == reqLog[j]
              pre == SubSeq(reqLog, 1, j - 1)
          IN  /\ e.strategy = 0 => j = 1
              /\ e.strategy > 0 =>
                    /\ DirectGaveUp(pre)
                    /\ \A k \in 1..(e.strategy - 1) : RelayGaveUp(pre, k)
              /\ NoJson(pre)

C4_Witness ==
    /\ fpc = "thrown"
    /\ Len(Attempts(reqLog, 1)) = 1
    /\ Len(Attempts(reqLog, NumProxies)) = Retries + 1

\* C5: a relay attempt answered with a non-2xx status, or with a 2xx body
\* that is not JSON, is the last request this fetch sends to that relay.
C5_MalformedAbortsRelay ==
    \A j \in 1..Len(reqLog) :
        (reqLog[j].strategy > 0 /\ reqLog[j].outcome \in {"status", "badjson"}) =>
            \A j2 \in (j + 1)..Len(reqLog) :
                reqLog[j2].strategy # reqLog[j].strategy

\* C6: one fetchWithRetry call contacts the direct URL at most once and each
\* relay at most retries+1 = 3 times: at most 7 HTTP requests in all.
C6_RequestBudget ==
    /\ Len(Attempts(reqLog, 0)) <= 1
    /\ \A k \in 1..NumProxies : Len(Attempts(reqLog, k)) <= 3
    /\ Len(reqLog) <= 7

C6_Witness ==
    /\ Len(reqLog) = 7
    /\ \E j \in 1..Len(reqLog) : reqLog[j].outcome = "status"
    /\ \E j \in 1..Len(reqLog) : reqLog[j].outcome = "neterr"

\* A step after which the next request is one more attempt on the relay of
\* the last one.
C15_NextAttemptSameRelay ==
    fpc' = "relay" /\ fk' = fk /\ fi' = fi + 1

\* C15: a further attempt on the same relay is reached only through the
\* backoff sleep of attempt_index * 500 ms (500 before the second attempt,
\* 1000 before the third), and there is no sleep after the last attempt on
\* a relay.
C15_BackoffBetweenAttempts ==
    [][/\ C15_NextAttemptSameRelay =>
            (fpc = "sleep" /\ fsleep = BackoffUnitMs * fi')
       /\ fpc' = "sleep" => (fi' < Retries /\ fsleep' = BackoffUnitMs * (fi' + 1))]_vars

(***************************************************************************)
(* Properties of fetchAllNTPCData (SpecPage)                               *)
(***************************************************************************)
RECURSIVE ConcatPages(_, _)
ConcatPages(ps, n) ==
    IF n = 0 THEN <<>> ELSE ConcatPages(ps, n - 1) \o ps[n]

NonEmptyList(r) == r.kind = "return" /\ r.val.t = "array" /\ Len(r.val.a) > 0

\* C7: for one base URL at most 16 page requests are issued, for pages
\* 0 through 15, however long the upstream keeps serving non-empty lists.
C7_PageCeiling ==
    \A t \in BaseUrls :
        /\ Len(pageLog[t]) <= 16
        /\ \A j \in 1..Len(pageLog[t]) : pageLog[t][j] \in 0..15

C7_Witness ==
    \E t \in BaseUrls :
        /\ ppc[t] = "done"
        /\ net[t].tail = "runaway"
        /\ Len(pageLog[t]) = 16

\* C8: when the fetch of page N fails terminally the paginator does not
\* raise: it returns the records of pages 0..N-1, concatenated in page order
\* (nothing when N = 0).
C8_PartialOnFailure ==
    \A t \in BaseUrls :
        /\ ppc[t] \in {"idle", "loop", "await", "done"}
        /\ (/\ ppc[t] = "done"
            /\ Respond(t, Last(pageLog[t])).kind = "throw") =>
              /\ Last(pageLog[t]) = Len(net[t].pages)
              /\ allData[t] = ConcatPages(net[t].pages, Last(pageLog[t]))

C8_Witness ==
    \E t \in BaseUrls :
        /\ ppc[t] = "done"
        /\ net[t].tail = "throw"
        /\ Last(pageLog[t]) = 2
        /\ Len(allData[t]) >= 3

\* C9 (steps): a page request is issued only while no request of the same
\* call is in flight, it asks for the page after the last one requested
\* (0 first), and the previous page's fetch completed with a non-empty list.
C9_RequestStep ==
    \A t \in BaseUrls :
        pageLog'[t] # pageLog[t] =>
            /\ ppc[t] # "await"
            /\ pageLog'[t] = Append(pageLog[t], Len(pageLog[t]))
            /\ Len(pageLog[t]) > 0 => NonEmptyList(Respond(t, Last(pageLog[t])))

\* C9 (scenario): page 0 with one record, then page 1 returning []: the
\* call returns that one record and page 2 is never requested.
C9_Scenario ==
    \A t \in BaseUrls :
        (/\ ppc[t] = "done"
         /\ Len(net[t].pages) = 1
         /\ Len(net[t].pages[1]) = 1
         /\ net[t].tail = "empty") =>
            /\ allData[t] = net[t].pages[1]
            /\ pageLog[t] = <<0, 1>>

\* C9: pages are requested one at a time in the order 0, 1, 2, ...; page N+1
\* only after page N completed with a non-empty list; after an empty list, a
\* non-list value or a failure no further page is requested.
C9_SequentialPages == [][C9_RequestStep]_vars /\ []C9_Scenario

C9_Witness ==
    \E t \in BaseUrls :
        /\ ppc[t] = "done"
        /\ Len(net[t].pages) = 1
        /\ Len(net[t].pages[1]) = 1
        /\ net[t].tail = "empty"
        /\ pageLog[t] = <<0, 1>>

(***************************************************************************)
(* Properties of fetchParkingData and the two normalizers (SpecAgg)        *)
(***************************************************************************)
\* A Taipei feed answer the normalizer can use: 2xx, JSON, data.park a list
\* of objects.
FeedUsable(r) ==
    /\ r.kind = "http"
    /\ r.ok
    /\ r.body # NotJson
    /\ DataPark(r.body).kind = "return"
    /\ DataPark(r.body).val.t = "array"
    /\ \A j \in 1..Len(DataPark(r.body).val.a) :
          DataPark(r.body).val.a[j].t = "object"

\* Source A fails entirely: neither feed gives a usable answer.
SourceAFails == \A e \in Feeds : net[e].kind = "neterr" \/ ~net[e].ok

\* Source B fails entirely: the first page of both base URLs cannot be
\* fetched.
SourceBFails ==
    \A t \in BaseUrls : net[t].pages = <<>> /\ net[t].tail = "throw"

\* C1: fetchParkingData fails with the no-data error exactly when both
\* normalizers returned an empty list; with Source B failing entirely and
\* Source A yielding records it returns Source A's records, and the same
\* with the sources exchanged.
C1_NoDataIffBothEmpty ==
    aggResult # NotYet =>
        /\ aggResult.kind = "throw" <=>
              (tpcData = Ret(<<>>) /\ ntpcData = Ret(<<>>))
        /\ aggResult.kind = "throw" => aggResult = NoData
        /\ (SourceBFails /\ tpcData # Ret(<<>>)) => aggResult = Ret(tpcData.val)
        /\ (SourceAFails /\ ntpcData # Ret(<<>>)) => aggResult = Ret(ntpcData.val)

C1_Witness ==
    /\ aggResult.kind = "return"
    /\ SourceBFails
    /\ Len(aggResult.val) = 1
    /\ aggResult.val[1].source = "TPC"

\* C2: the list fetchParkingData returns is the Taipei records in their
\* normalized order followed by the New Taipei records in theirs (the order
\* of the pages), whichever pipeline settled first, and a record whose id
\* also occurs in the other source is kept.
C2_ConcatInSourceOrder ==
    aggResult.kind = "return" =>
        /\ aggResult.val = tpcData.val \o ntpcData.val
        /\ \A j \in 1..Len(ntpcData.val) :
              ntpcData.val[j].id = Get(allData["desc"][j], "ID")

C2_Witness ==
    /\ aggResult.kind = "return"
    /\ doneOrder = <<"NTPC", "TPC">>
    /\ Len(tpcData.val) = 1
    /\ Len(ntpcData.val) = 2
    /\ aggResult.val[1].id = aggResult.val[2].id
    /\ aggResult.val[1].source = "TPC"

\* C3: neither normalizer propagates a failure: whatever its endpoints
\* answer it settles with a list, the empty list when its inputs are
\* unusable, so the records of the sibling source are still delivered.
C3_NormalizersNeverThrow ==
    /\ tpcData # NotYet => tpcData.kind = "return"
    /\ ntpcData # NotYet => ntpcData.kind = "return"
    /\ (tpcData # NotYet /\ \E e \in Feeds : ~FeedUsable(net[e])) =>
          tpcData.val = <<>>
    /\ (ntpcData # NotYet /\ net["desc"].pages = <<>>) => ntpcData.val = <<>>
    /\ aggResult # NotYet =>
          /\ ntpcData.val # <<>> =>
                /\ aggResult.kind = "return"
                /\ SubSeq(aggResult.val, Len(tpcData.val) + 1, Len(aggResult.val))
                      = ntpcData.val
          /\ tpcData.val # <<>> =>
                /\ aggResult.kind = "return"
                /\ SubSeq(aggResult.val, 1, Len(tpcData.val)) = tpcData.val

C3_Witness ==
    /\ aggResult.kind = "return"
    /\ net["tdesc"] = Http(TRUE, NotJson)
    /\ net["avail"].tail = "throw"
    /\ tpcData = Ret(<<>>)
    /\ Len(aggResult.val) = 2

(***************************************************************************)
(* Properties of the emitted records (SpecNorm)                            *)
(***************************************************************************)
Sentinels == {-9, -11, -12, -13}

WellFormedAvailability(v) ==
    /\ v.t = "number"
    /\ v.n >= 0 \/ v.n \in Sentinels

\* C10: every record fetchParkingData returns has availablecar >= 0 or one
\* of -9, -11, -12, -13, whatever availability value the upstream sent.
C10_AvailabilityRange ==
    aggResult.kind = "return" =>
        \A j \in 1..Len(aggResult.val) :
            WellFormedAvailability(aggResult.val[j].availablecar)

(***************************************************************************)
(* App (App.tsx): loadData, the mount effect, the refresh timer and the    *)
(* refresh button.  Time is not measured: a fetchParkingData call may take *)
(* longer than the refresh interval (sixteen sequential pages, each with   *)
(* up to seven requests of 5 to 8 seconds), so the timer may fire with a   *)
(* load in flight.                                                         *)
(***************************************************************************)
MaxLoads == 3

\* The invocations of loadData so far, numbered in start order, and those
\* whose fetchParkingData() has not settled.
Started == {events[j].call : j \in {h \in 1..Len(events) : events[h].ev = "start"}}
Finished == {events[j].call : j \in {h \in 1..Len(events) : events[h].ev # "start"}}
InFlight == Started \ Finished

\* The list fetchParkingData() returns to invocation k: the upstream data as
\* read by that invocation.
Snapshot(k) == <<[snapshot |-> k]>>

\* new Date() at the moment the continuation runs.
Date(n) == [t |-> "date", at |-> n]
Now == Len(events) + 1

\* The message of line 25 (in Chinese in the source).
ErrorMessage == Str("cannot read the parking data, try again later")

LoadDataSettleWipes(s, r, now) ==
    IF r.kind = "return"
    THEN [parkingData |-> r.val, lastUpdated |-> Date(now), error |-> Null,
          loading |-> FALSE]
    ELSE [parkingData |-> <<>>, lastUpdated |-> s.lastUpdated,
          error |-> ErrorMessage, loading |-> FALSE]

\* The continuation of loadData after `await fetchParkingData()` settled
\* with r (lines 20-28), run to completion: the try body or the catch
\* block, then finally.  s holds the cells before, the result the cells
\* after.
LoadDataSettle(s, r, now) ==
    IF r.kind = "return"
    THEN [parkingData |-> r.val, lastUpdated |-> Date(now), error |-> Null,
          loading |-> FALSE]
    ELSE [parkingData |-> s.parkingData, lastUpdated |-> s.lastUpdated,
          error |-> ErrorMessage, loading |-> FALSE]

Cells ==
    [parkingData |-> parkingData, lastUpdated |-> lastUpdated,
     error |-> error, loading |-> loading]

\* loadData() is called: setLoading(true), then fetchParkingData() is
\* awaited (lines 18-20).
LoadStart(trigger) ==
    /\ Cardinality(Started) < MaxLoads
    /\ loading' = TRUE
    /\ events' = Append(events, [ev |-> "start", call |-> Cardinality(Started) + 1,
                                 by |-> trigger])
    /\ UNCHANGED <<parkingData, error, lastUpdated, fvars, pvars, net, avars, cvars>>

\* The effect of lines 65-74 runs once the component is mounted.
Mount == events = <<>> /\ LoadStart("mount")

\* The setInterval callback of lines 69-71 fires.
IntervalTick == events # <<>> /\ LoadStart("interval")

\* A click on the refresh button, which is disabled while loading (lines
\* 114-116).
ClickRefresh == events # <<>> /\ ~loading /\ LoadStart("button")

\* fetchParkingData() of invocation k settles with r and the rest of
\* loadData runs.
LoadSettle(k, r) ==
    /\ k \in InFlight
    /\ LET after == LoadDataSettle(Cells, r, Now)
       IN  /\ parkingData' = after.parkingData
           /\ lastUpdated' = after.lastUpdated
           /\ error' = after.error
           /\ loading' = after.loading
    /\ events' = Append(events, [ev |-> IF r.kind = "return" THEN "resolve"
                                        ELSE "reject",
                                 call |-> k, by |-> "fetch"])
    /\ UNCHANGED <<fvars, pvars, net, avars, cvars>>

\* How fetchParkingData() may settle for invocation k: it returns the
\* combined list or throws (api.ts 201-207).
FetchSettlements(k) == {Ret(Snapshot(k)), NoData}

NextApp ==
    \/ Mount
    \/ IntervalTick
    \/ ClickRefresh
    \/ \E k \in 1..MaxLoads : \E r \in FetchSettlements(k) : LoadSettle(k, r)

InitApp == FetchIdle /\ PageIdle /\ NetIdle /\ AggIdle /\ CallIdle /\ AppIdle

SpecApp == InitApp /\ [][NextApp]_vars

(***************************************************************************)
(* Upstreams that stay silent, and relays (SpecUpstream)                   *)
(***************************************************************************)
\* The server accepts the connection and never sends a response.
Hang == [kind |-> "hang"]

TpcSample(e) == IF e = "tdesc" THEN TpcSampleDesc ELSE TpcSampleAvail

\* Answers of a Taipei feed asked directly, and of a relay asked for it.
TpcDirectAnswers(e) ==
    {NoResponse, Hang, Http(FALSE, NotJson), Http(TRUE, TpcBody(<<TpcSample(e)>>))}
TpcRelayAnswers(e) ==
    {NoResponse, Http(TRUE, TpcBody(<<TpcSample(e)>>))}

InitUpstream ==
    /\ Called
    /\ \E td \in TpcDirectAnswers("tdesc"), ta \in TpcDirectAnswers("tavail"),
          rd \in TpcRelayAnswers("tdesc"), ra \in TpcRelayAnswers("tavail"),
          nd \in NtpcAnswers("desc", {"empty", "throw"}),
          na \in NtpcAnswers("avail", {"empty"}) :
         net = [Net(td, ta, nd, na) EXCEPT
                    !.relay = [e \in Feeds |-> IF e = "tdesc" THEN rd ELSE ra]]

SpecUpstream == InitUpstream /\ [][NextAgg]_vars

\* fetchParkingData is pending and nothing it awaits can settle any more:
\* New Taipei has settled, and Promise.all of line 105 waits for a request
\* to a silent server that no timer will abort.
Blocked ==
    /\ aggResult = NotYet
    /\ ntpcData # NotYet
    /\ tpcData = NotYet
    /\ \E e \in Feeds : tres[e] = NotYet
    /\ \A e \in Feeds : tres[e] = NotYet => ~Settles(net[e])
    /\ \A e \in Feeds : tres[e].kind # "neterr"

\* C14: every network request carries a timeout, so every fetchParkingData
\* invocation returns or fails whatever the upstreams do: it is never left
\* waiting for a request that cannot settle.
C14_EveryCallSettles == ~Blocked

\* An answer that delivers the feed's park list.
Delivers(answer) == answer.kind = "http" /\ answer.ok /\ answer.body # NotJson

\* C17: the Taipei fetches go through the relays as the New Taipei ones do:
\* when, for each Taipei feed, the direct request or a relay request would
\* deliver the feed, fetchTaipeiData delivers the Taipei records.
C17_TaipeiUsesRelays ==
    (/\ tpcData # NotYet
     /\ \A e \in Feeds : Delivers(net[e]) \/ Delivers(net.relay[e]))
        => tpcData.val # <<>>

(***************************************************************************)
(* One getProp call (SpecProp)                                             *)
(***************************************************************************)
A1 == Str(<<"A", "1">>)

\* The spellings under which an upstream record may store its identifier
\* and the values stored: objects holding any of the spellings, plus the
\* null and undefined the guard of line 99 is there for.
IdSpellings == {"ID", "id", "Id"}
IdValues == {A1, Str(<<"B", "2">>), Str(<<>>)}
PropObjs ==
    {Obj(f) : f \in UNION {[S -> IdValues] : S \in SUBSET IdSpellings}}
        \cup {Null, Undef}

InitProp ==
    /\ FetchIdle /\ PageIdle /\ NetIdle /\ AggIdle /\ AppIdle
    /\ \E o \in PropObjs : args = [fn |-> "getProp", obj |-> o, key |-> "ID"]
    /\ ret = NotYet /\ p4Calls = <<>>

SpecProp == InitProp /\ [][NextProp]_vars

\* C12: getProp(obj, 'ID') returns "A1" for each of {ID: "A1"}, {id: "A1"}
\* and {Id: "A1"}: the result does not depend on the casing of the stored
\* key.
C12_AnyCasingResolves ==
    (ret # NotYet /\ args.obj \in {Obj([ID |-> A1]), Obj([id |-> A1]), Obj([Id |-> A1])})
        => ret = Ret(A1)

\* C21: getProp returns the value stored under the exact key whenever the
\* object has that key: a falsy value stored there (an empty string, a zero
\* count) is never replaced by the value of a differently-cased key.
C21_ExactKeyWins ==
    (/\ ret # NotYet
     /\ args.obj.t = "object"
     /\ args.key \in DOMAIN args.obj.f)
        => ret = Ret(args.obj.f[args.key])

(***************************************************************************)
(* One convertTWD97ToWGS84 call (SpecConv)                                 *)
(***************************************************************************)
\* Arguments as the normalizers pass them (the results of parseFloat) and as
\* an untyped caller may: NaN, zero, projected metres, a negative number,
\* undefined, null.
ConvInputs ==
    {NaN, Num(0), Num(300000), Num(2770000), Num(-1), Undef, Null}

InitConv ==
    /\ FetchIdle /\ PageIdle /\ AggIdle /\ AppIdle
    /\ \E m \in P4Modes :
         net = [Net(NoResponse, NoResponse, NoUpstream, NoUpstream) EXCEPT !.p4 = m]
    /\ \E x \in ConvInputs, y \in ConvInputs :
         args = [fn |-> "convertTWD97ToWGS84", x |-> x, y |-> y]
    /\ ret = NotYet /\ p4Calls = <<>>

SpecConv == InitConv /\ [][NextConv]_vars

ZeroAbsentOrNaN(v) == v \in {Num(0), Undef, Null, NaN}

\* C13: convertTWD97ToWGS84 returns exactly (0, 0), without calling the
\* projection library, when x or y is zero, absent or NaN; it returns (0, 0)
\* when the library call fails; it never raises.
C13_SentinelNoThrow ==
    ret # NotYet =>
        /\ ret.kind = "return"
        /\ (ZeroAbsentOrNaN(args.x) \/ ZeroAbsentOrNaN(args.y)) =>
              (ret.val = <<Num(0), Num(0)>> /\ p4Calls = <<>>)
        /\ net.p4 = "throws" => ret.val = <<Num(0), Num(0)>>
        /\ p4Calls # <<>> => p4Calls = <<<<args.x, args.y>>>>

\* Called with x = 0 and a usable y: (0, 0) comes back and proj4 was not
\* called.
C13_Witness ==
    /\ ret = Ret(<<Num(0), Num(0)>>)
    /\ args.x = Num(0) /\ args.y = Num(2770000)
    /\ p4Calls = <<>>

(***************************************************************************)
(* Properties of the coordinate filter (SpecDesc)                          *)
(***************************************************************************)
\* The park list a Taipei feed serves and the records New Taipei serves.
TpcParks(e) == net[e].body.f.data.f.park.a
NtpcRecords(t) == net[t].pages[1]

\* A coordinate field that is zero, missing or unparsable.
NoCoordinate(v) ==
    v \in {Undef, Null, Num(0), Str(<<>>), Str(<<"0">>), Chars("a", "b", "c")}

\* The field of an upstream record stored under one of the spellings ks.
Field(d, ks) ==
    IF \E j \in 1..Len(ks) : ks[j] \in DOMAIN d.f
    THEN d.f[ks[CHOOSE j \in 1..Len(ks) :
                    /\ ks[j] \in DOMAIN d.f
                    /\ \A h \in 1..(j - 1) : ks[h] \notin DOMAIN d.f]]
    ELSE Undef

\* Descriptions the claim expects to be dropped.
Unlocated(d, kx, ky) ==
    \/ NoCoordinate(Field(d, kx)) \/ NoCoordinate(Field(d, ky))
    \/ net.p4 = "throws"

Located(ds, kx, ky) == {j \in 1..Len(ds) : ~Unlocated(ds[j], kx, ky)}

\* C11: no returned record has the coordinates (0, 0); a description whose
\* projected x or y is zero, missing or unparsable, or whose conversion
\* fails, is in neither normalizer's output; New Taipei never emits a record
\* with an empty identifier.
C11_NoZeroCoordinates ==
    /\ aggResult.kind = "return" =>
          \A j \in 1..Len(aggResult.val) :
              /\ aggResult.val[j].lat # Num(0)
              /\ aggResult.val[j].lng # Num(0)
    /\ tpcData # NotYet =>
          Len(tpcData.val) <= Cardinality(Located(TpcParks("tdesc"),
                                                 <<"tw97x">>, <<"tw97y">>))
    /\ ntpcData # NotYet =>
          /\ Len(ntpcData.val) <=
                Cardinality(Located(NtpcRecords("desc"),
                                    <<"TW97X", "tw97x">>, <<"TW97Y", "tw97y">>))
          /\ \A j \in 1..Len(ntpcData.val) :
                ntpcData.val[j].id \notin {Undef, Null, Str(<<>>)}

\* Taipei served a description with a zero y and New Taipei one lot: the
\* result holds the New Taipei lot only.
C11_Witness ==
    /\ aggResult.kind = "return"
    /\ net.p4 = "ok"
    /\ \E j \in 1..Len(TpcParks("tdesc")) :
          Get(TpcParks("tdesc")[j], "tw97y") = Str(<<"0">>)
    /\ tpcData.val = <<>>
    /\ Len(aggResult.val) = 1

\* C18: every record fetchParkingData returns has totalcar a non-negative
\* integer, whatever capacity value the upstream sent (0 when it is missing
\* or unparsable).
C18_CapacityNonNegative ==
    aggResult.kind = "return" =>
        \A j \in 1..Len(aggResult.val) :
            /\ aggResult.val[j].totalcar.t = "number"
            /\ aggResult.val[j].totalcar.n >= 0

(***************************************************************************)
(* Properties of the availability join (SpecNorm)                          *)
(***************************************************************************)
IdKeys == <<"ID", "id">>

\* The availability entries of as stored for the identifier of d.
Matching(d, as, idKeys) ==
    {i \in 1..Len(as) : Field(as[i], idKeys) = Field(d, idKeys)}

LastOf(S) == CHOOSE i \in S : \A h \in S : h <= i

\* The count a New Taipei availability value denotes: a number, or one of
\* the string-encoded integers the dataset carries; Undef for any other
\* value.
Denotes(v) ==
    CASE v.t = "number" -> v
      [] v = Str(<<"0">>) -> Num(0)
      [] v = Str(<<"1">>) -> Num(1)
      [] v = Str(<<"3">>) -> Num(3)
      [] v = Str(<<"1", "5">>) -> Num(15)
      [] v = Str(<<"4", "2">>) -> Num(42)
      [] v = Str(<<"-", "5">>) -> Num(-5)
      [] v = Chars("-", "1", "1") -> Num(-11)
      [] OTHER -> Undef

\* What the claim expects as availablecar of Taipei description d.
ExpectedTaipei(d, as) ==
    LET hits == Matching(d, as, <<"id">>)
    IN  IF hits = {} THEN Num(-9)
        ELSE LET v == Field(as[LastOf(hits)], <<"availablecar">>)
             IN  IF v \in {Undef, Null} THEN Num(-9) ELSE v

\* The same for New Taipei; Undef when the matching entry holds no count.
ExpectedNewTaipei(d, as) ==
    LET hits == Matching(d, as, IdKeys)
    IN  IF hits = {} THEN Num(-9)
        ELSE Denotes(Field(as[LastOf(hits)], <<"AVAILABLECAR", "availablecar">>))

TpcLocated == SelectSeq(TpcParks("tdesc"),
                        LAMBDA d : ~Unlocated(d, <<"tw97x">>, <<"tw97y">>))

NtpcLocated ==
    SelectSeq(NtpcRecords("desc"),
              LAMBDA d : /\ ~Unlocated(d, <<"TW97X", "tw97x">>, <<"TW97Y", "tw97y">>)
                         /\ Field(d, IdKeys) \notin {Undef, Str(<<>>)})

\* C16: in both normalizers every description with valid coordinates is
\* emitted, with availablecar the value of the availability entry stored
\* for its identifier and -9 when there is no such entry; none is dropped
\* for lack of a match.
C16_JoinByIdentifier ==
    /\ tpcData # NotYet =>
          /\ Len(tpcData.val) = Len(TpcLocated)
          /\ \A j \in 1..Len(TpcLocated) :
                tpcData.val[j].availablecar =
                    ExpectedTaipei(TpcLocated[j], TpcParks("tavail"))
    /\ ntpcData # NotYet =>
          /\ Len(ntpcData.val) = Len(NtpcLocated)
          /\ \A j \in 1..Len(NtpcLocated) :
                LET e == ExpectedNewTaipei(NtpcLocated[j], NtpcRecords("avail"))
                IN  e # Undef => ntpcData.val[j].availablecar = e

\* Taipei served a located description and availability for another lot
\* only: the description is in the result with availablecar = -9.
C16_Witness ==
    /\ aggResult.kind = "return"
    /\ Len(TpcLocated) = 1
    /\ Len(TpcParks("tavail")) = 1
    /\ Matching(TpcLocated[1], TpcParks("tavail"), <<"id">>) = {}
    /\ aggResult.val[1].source = "TPC"
    /\ aggResult.val[1].availablecar = Num(-9)

(***************************************************************************)
(* Properties of App.loadData (SpecApp)                                    *)
(***************************************************************************)
Resolved == {events[j].call : j \in {h \in 1..Len(events) : events[h].ev = "resolve"}}

\* C19: with overlapping loadData invocations the displayed parkingData is
\* the result of the most recently started successful invocation (an
\* earlier invocation finishing later does not overwrite it), and loading
\* is true whenever an invocation is in flight.
C19_LatestLoadWins ==
    /\ InFlight # {} => loading = TRUE
    /\ Resolved # {} => parkingData = Snapshot(LastOf(Resolved))

LastEvent == events[Len(events)]

\* What a step that settles an invocation does to the cells.
C20_SettleStep ==
    events' # events =>
        LET e == events'[Len(events')]
        IN  /\ e.ev = "reject" =>
                  /\ parkingData' = parkingData
                  /\ lastUpdated' = lastUpdated
                  /\ error' # Null
                  /\ loading' = FALSE
            /\ e.ev = "resolve" =>
                  /\ parkingData' = Snapshot(e.call)
                  /\ lastUpdated' \notin {Null, lastUpdated}
                  /\ error' = Null
                  /\ loading' = FALSE

\* No invocation was started with another one in flight, and the last one
\* has settled.
SequentialLoads ==
    /\ events # <<>>
    /\ LastEvent.ev # "start"
    /\ \A j \in 1..Len(events) : (events[j].ev = "start") <=> (j % 2 = 1)

\* C20: a failing loadData leaves parkingData and lastUpdated unchanged,
\* sets error and clears loading; a succeeding one replaces parkingData,
\* updates lastUpdated and clears error; after loads that did not overlap,
\* error is set exactly when the most recent load failed.
C20_LoadFrame ==
    /\ [][C20_SettleStep]_vars
    /\ [](SequentialLoads => (error # Null <=> LastEvent.ev = "reject"))

\* A load succeeded and the next one failed: the first load's data and
\* timestamp are still displayed, with the error.
C20_Witness ==
    /\ SequentialLoads
    /\ Len(events) = 4
    /\ events[2].ev = "resolve" /\ events[4].ev = "reject"
    /\ parkingData = Snapshot(1) /\ lastUpdated = Date(2)
    /\ error # Null /\ ~loading

====
